---- MODULE Spec2Model ----
(***************************************************************************)
(* Model of the bulk-mail relay server (src/server.js): the per-account    *)
(* hourly quota table `stats`, the hourly reset timer, the POST /send      *)
(* handler with its awaits (transporter.verify, Promise.allSettled over a  *)
(* batch of sendMail calls, the fixed delay) and sendSafely's batching.    *)
(*                                                                         *)
(* One action is one run-to-completion step of the Node event loop: the    *)
(* code from one await (or the handler's entry) to the next await, return  *)
(* or throw.                                                               *)
(***************************************************************************)
EXTENDS Integers, Sequences, FiniteSets, TLC

(* ------------------------------------------------------------------ *)
(* Program constants (src/server.js:22-24)                             *)
(* ------------------------------------------------------------------ *)
HOURLY_LIMIT == 28
PARALLEL == 3

(* ------------------------------------------------------------------ *)
(* Bounds of the model                                                 *)
(* ------------------------------------------------------------------ *)
\* total number of hourly timer ticks in one run
MaxResets == 1
\* sendMail calls of one request that the relay rejects
MaxRejects == 1

\* the POST /send requests of a run, numbered in the order they arrive
Reqs == {1, 2}
\* the sender accounts that occur in requests
Accounts == {"a", "b"}

(* ------------------------------------------------------------------ *)
(* Strings are sequences of one-character strings                      *)
(* ------------------------------------------------------------------ *)
IsSpace(c) == c \in {" ", "\t", "\n", "\r"}

\* the positions where a match of /,|\r?\n/ ends
SepEnds(s) == {k \in 1..Len(s) : s[k] = "," \/ s[k] = "\n"}

\* the position where the match ending at e starts: a "\r" right before a "\n"
\* belongs to the match
SepStart(s, e) ==
  IF s[e] = "\n" /\ e > 1 /\ s[e - 1] = "\r" THEN e - 1 ELSE e

\* the n-th smallest element of the set of positions P
Nth(P, n) == CHOOSE p \in P : Cardinality({q \in P : q <= p}) = n

\* String.prototype.split(/,|\r?\n/): the text between consecutive matches
Split(s) ==
  LET ends == SepEnds(s)
      m == Cardinality(ends)
      from(n) == IF n = 1 THEN 1 ELSE Nth(ends, n - 1) + 1
      upto(n) == IF n = m + 1 THEN Len(s) ELSE SepStart(s, Nth(ends, n)) - 1
  IN  [n \in 1..(m + 1) |-> SubSeq(s, from(n), upto(n))]

\* String.prototype.trim
Trim(s) ==
  LET solid == {k \in 1..Len(s) : ~IsSpace(s[k])}
  IN  IF solid = {} THEN <<>>
      ELSE SubSeq(s, CHOOSE k \in solid : \A q \in solid : k <= q,
                     CHOOSE k \in solid : \A q \in solid : k >= q)

\* a filter that keeps every non-empty entry
IncludesAt_NonEmpty(s) == Len(s) > 0

\* r.includes("@")
IncludesAt(s) == \E k \in 1..Len(s) : s[k] = "@"

\* to.split(/,|\r?\n/).map(r => r.trim()).filter(r => r.includes("@"))
ParseRecipients(to) ==
  LET entries == Split(to)
      trimmed == [k \in 1..Len(entries) |-> Trim(entries[k])]
  IN  SelectSeq(trimmed, IncludesAt)

(* ------------------------------------------------------------------ *)
(* Request bodies that arrive at POST /send                            *)
(* ------------------------------------------------------------------ *)
Addr == <<"u", "@", "x">>

\* n addresses separated by commas
AddrList(n) ==
  [k \in 1..(4 * n - 1) |-> IF k % 4 = 0 THEN "," ELSE Addr[k % 4]]

\* " u@x, no\r\nu@x \n,u@x": three addresses among entries that hold none
MixedTo ==
  <<" ">> \o Addr \o <<",", " ", "n", "o", "\r", "\n">> \o Addr
          \o <<" ", "\n", ",">> \o Addr

\* the `to` strings of the requests: the empty string, a string without any
\* address, and lists of 1, 3, 7, HOURLY_LIMIT and HOURLY_LIMIT + 1 addresses
ToInputs ==
  { <<>>, <<"n", "o">>, MixedTo }
    \cup { AddrList(n) : n \in {1, 7, HOURLY_LIMIT, HOURLY_LIMIT + 1} }

Fields == {"senderName", "gmail", "apppass", "to", "subject", "message"}

FullBodies ==
  [ senderName : {"Me"}, gmail : Accounts, apppass : {"pw"},
    to : ToInputs \ {<<>>}, subject : {"Hi"}, message : {"Hello"} ]

\* b with field f absent or empty
Without(b, f) == [b EXCEPT ![f] = IF f = "to" THEN <<>> ELSE ""]

Bodies ==
  FullBodies
    \cup { Without(b, f) : b \in {x \in FullBodies : x.to = Addr}, f \in Fields }

\* the recipient list of each `to` string that occurs, computed once
RecipientsOf == [t \in ToInputs |-> ParseRecipients(t)]

(* ------------------------------------------------------------------ *)
(* State                                                               *)
(* ------------------------------------------------------------------ *)
VARIABLES
  stats,       \* the quota table: account -> [count]
  pc,          \* per request: where its handler is suspended
  gmail,       \* per request: the request's account
  recipients,  \* per request: the parsed recipient list
  remaining,   \* per request: HOURLY_LIMIT - count, computed at the quota check
  i,           \* sendSafely: the loop index
  sent,        \* sendSafely: the tally
  results,     \* sendSafely: the state of the promises of the current batch
  responses,   \* per request: the JSON bodies passed to res.json
  verifyCalls, \* relay: transporter.verify calls of the request
  verified,    \* relay: the request's transporter.verify call fulfilled
  attempts,    \* relay: sendMail calls per message of the request
  relayOk,     \* relay: sendMail calls of the request that fulfilled
  batches,     \* relay: the batches issued so far, as message positions
  delays,      \* timers: the delays of the request that have elapsed
  resetSeen,   \* per request: the timer fired while the request was in flight
  resets,      \* timer ticks so far
  epoch,       \* per request: the timer ticks before the request arrived
  arg,         \* content layer: the string a function is applied to
  val,         \* content layer: the results of the applications so far
  sending,     \* compose page: let sending
  disabled,    \* compose page: sendBtn.disabled
  call,        \* compose page: where the sendMail() invocation is
  fetches,     \* compose page: /send requests issued and not yet answered
  clicks,      \* compose page: clicks on sendBtn so far
  limitText,   \* compose page: the count shown in limitText, if any
  alerts,      \* compose page: what alert() was called with
  location     \* compose page: the page the window shows

\* the server
serverVars ==
  << stats, pc, gmail, recipients, remaining, i, sent, results, responses,
     verifyCalls, verified, attempts, relayOk, batches, delays, resetSeen,
     resets, epoch >>

\* runs of the pure functions of the server on their own
textVars == << arg, val >>

\* the compose page, src/public/script.js
pageVars ==
  << sending, disabled, call, fetches, clicks, limitText, alerts, location >>

vars == << serverVars, textVars, pageVars >>

\* the record of what the relay and the timers were asked to do
hist == << verifyCalls, verified, attempts, relayOk, batches, delays >>

\* let stats = {}
EmptyStats == [g \in {} |-> [count |-> 0]]

\* no function of the content layer is being run on its own
TextIdle == arg = <<>> /\ val = <<>>

\* the compose page as loaded
PageLoaded ==
  /\ sending = FALSE
  /\ disabled = FALSE
  /\ call = "none"
  /\ fetches = 0
  /\ clicks = 0
  /\ limitText = <<>>
  /\ alerts = <<>>
  /\ location = "/"

ServerInit ==
  /\ stats = EmptyStats
  /\ pc = [r \in Reqs |-> "idle"]
  /\ gmail = [r \in Reqs |-> ""]
  /\ recipients = [r \in Reqs |-> <<>>]
  /\ remaining = [r \in Reqs |-> 0]
  /\ i = [r \in Reqs |-> 0]
  /\ sent = [r \in Reqs |-> 0]
  /\ results = [r \in Reqs |-> <<>>]
  /\ responses = [r \in Reqs |-> <<>>]
  /\ verifyCalls = [r \in Reqs |-> 0]
  /\ verified = [r \in Reqs |-> FALSE]
  /\ attempts = [r \in Reqs |-> <<>>]
  /\ relayOk = [r \in Reqs |-> 0]
  /\ batches = [r \in Reqs |-> <<>>]
  /\ delays = [r \in Reqs |-> 0]
  /\ resetSeen = [r \in Reqs |-> FALSE]
  /\ resets = 0
  /\ epoch = [r \in Reqs |-> 0]

Init == ServerInit /\ TextIdle /\ PageLoaded

(* ------------------------------------------------------------------ *)
(* The quota table                                                     *)
(* ------------------------------------------------------------------ *)
\* stats[g] is an object (not undefined)
HasRecord(st, g) == g \in DOMAIN st

\* a lazy initialisation that gives every account a record
LazyInit_All(st, g) ==
  [h \in DOMAIN st \cup Accounts \cup {g} |->
     IF h \in DOMAIN st THEN st[h] ELSE [count |-> 0]]

\* if (!stats[gmail]) stats[gmail] = { count: 0 }
LazyInit(st, g) ==
  IF HasRecord(st, g) THEN st
  ELSE [a \in DOMAIN st \cup {g} |-> IF a = g THEN [count |-> 0] ELSE st[a]]

\* the cap check with > for >=
LimitReached_Strict(count) == count > HOURLY_LIMIT

\* stats[gmail].count >= HOURLY_LIMIT
LimitReached(count) == count >= HOURLY_LIMIT

\* const remaining = HOURLY_LIMIT - stats[gmail].count
Remaining(count) == HOURLY_LIMIT - count

\* the remaining-quota check off by one
LimitFull_OffByOne(n, rem) == n > rem + 1

\* recipients.length > remaining
LimitFull(n, rem) == n > rem

\* the commit with = for +=
Commit_Overwrite(st, g, k) == [st EXCEPT ![g].count = k]

\* stats[gmail].count += sent
Commit(st, g, k) == [st EXCEPT ![g].count = @ + k]

\* !gmail || !apppass || !to || !subject || !message
\* the validation without its test of subject
MissingFields_NoSubject(b) ==
  \/ b.gmail = ""
  \/ b.apppass = ""
  \/ b.to = <<>>
  \/ b.message = ""

MissingFields(b) ==
  \/ b.gmail = ""
  \/ b.apppass = ""
  \/ b.to = <<>>
  \/ b.subject = ""
  \/ b.message = ""

(* ------------------------------------------------------------------ *)
(* sendSafely                                                          *)
(* ------------------------------------------------------------------ *)
Min(x, y) == IF x <= y THEN x ELSE y

\* a slice one message wider than PARALLEL
Batch_TooWide(len, k) == [j \in 1..(Min(k + PARALLEL + 1, len) - k) |-> k + j]

\* mails.slice(k, k + PARALLEL), as the positions (from 1) of its messages
Batch(len, k) == [j \in 1..(Min(k + PARALLEL, len) - k) |-> k + j]

\* the loop test that leaves out a last, smaller batch
LoopRuns_DropsPartial(k, len) == k + PARALLEL <= len

\* for (...; i < mails.length; ...)
LoopRuns(k, len) == k < len

\* the loop step one short, so that consecutive batches overlap
Advance_Overlaps(k) == k + PARALLEL - 1

\* i += PARALLEL
Advance(k) == k + PARALLEL

\* the tally without the test of r.status
Tally_CountsAll(res) == Len(res)

\* results.forEach(r => { if (r.status === "fulfilled") sent++; })
Tally(res) == Cardinality({j \in 1..Len(res) : res[j] = "fulfilled"})

\* batch.map(m => transporter.sendMail(m)): one more call per message of the batch
Issue(att, batch) ==
  [m \in DOMAIN att |->
     att[m] + Cardinality({j \in 1..Len(batch) : batch[j] = m})]

(* ------------------------------------------------------------------ *)
(* POST /send                                                          *)
(* ------------------------------------------------------------------ *)
InFlight(r) == pc[r] \in {"verify", "sending", "delay"}

Ended(r) == pc[r] \in {"responded", "threw"}

\* relay: the sendMail calls of the request that rejected
Rejected(r) ==
  LET settled == IF pc[r] = "sending" THEN i[r] ELSE Min(Advance(i[r]), Len(recipients[r]))
  IN  IF Len(batches[r]) = 0 THEN 0 ELSE settled - relayOk[r]

\* return res.json(body)
Respond(r, body) ==
  /\ responses' = [responses EXCEPT ![r] = Append(@, body)]
  /\ pc' = [pc EXCEPT ![r] = "responded"]

\* reading stats[gmail].count when stats[gmail] is undefined: a TypeError leaves
\* the handler; the request gets no JSON body
Throw(r) ==
  /\ pc' = [pc EXCEPT ![r] = "threw"]
  /\ UNCHANGED responses

\* the commit with a response that carries the count read before the addition
CommitAndRespond_StaleCount(r, k) ==
  IF HasRecord(stats, gmail[r])
  THEN /\ stats' = Commit(stats, gmail[r], k)
       /\ Respond(r, [success |-> TRUE, sent |-> k,
                      count |-> stats[gmail[r]].count])
  ELSE /\ UNCHANGED stats
       /\ Throw(r)

\* stats[gmail].count += sent; return res.json({ success: true, sent, count })
CommitAndRespond(r, k) ==
  IF HasRecord(stats, gmail[r])
  THEN /\ stats' = Commit(stats, gmail[r], k)
       /\ Respond(r, [success |-> TRUE, sent |-> k,
                      count |-> stats'[gmail[r]].count])
  ELSE /\ UNCHANGED stats
       /\ Throw(r)

\* one turn of sendSafely's loop up to its await Promise.allSettled
StartBatch(r, k) ==
  LET batch == Batch(Len(recipients[r]), k)
  IN  /\ i' = [i EXCEPT ![r] = k]
      /\ results' = [results EXCEPT ![r] = [j \in 1..Len(batch) |-> "pending"]]
      /\ attempts' = [attempts EXCEPT ![r] = Issue(@, batch)]
      /\ batches' = [batches EXCEPT ![r] = Append(@, batch)]
      /\ pc' = [pc EXCEPT ![r] = "sending"]
      /\ UNCHANGED << stats, responses >>

\* the handler from its entry to await transporter.verify() or to a return
Receive(r, b) ==
  LET g == b.gmail
      st == LazyInit(stats, g)
      count == st[g].count
      rcpts == RecipientsOf[b.to]
      admitted == /\ ~MissingFields(b)
                  /\ ~LimitReached(count)
                  /\ ~LimitFull(Len(rcpts), Remaining(count))
  IN  /\ pc[r] = "idle"
      /\ \A q \in Reqs : q < r => pc[q] # "idle"
      /\ gmail' = [gmail EXCEPT ![r] = g]
      /\ epoch' = [epoch EXCEPT ![r] = resets]
      /\ UNCHANGED << i, sent, results, verified, relayOk, batches, delays,
                      resetSeen, resets, textVars, pageVars >>
      /\ IF MissingFields(b)
         THEN /\ responses' = [responses EXCEPT ![r] =
                   << [success |-> FALSE, msg |-> "Missing Fields", count |-> 0] >>]
              /\ pc' = [pc EXCEPT ![r] = "responded"]
              /\ UNCHANGED stats
         ELSE /\ stats' = st
              /\ IF LimitReached(count)
                 THEN /\ responses' = [responses EXCEPT ![r] =
                           << [success |-> FALSE,
                               msg |-> "This Gmail ID hourly limit reached",
                               count |-> count] >>]
                      /\ pc' = [pc EXCEPT ![r] = "responded"]
                 ELSE IF LimitFull(Len(rcpts), Remaining(count))
                 THEN /\ responses' = [responses EXCEPT ![r] =
                           << [success |-> FALSE,
                               msg |-> "This Gmail ID limit full",
                               count |-> count] >>]
                      /\ pc' = [pc EXCEPT ![r] = "responded"]
                 ELSE /\ responses' = [responses EXCEPT ![r] = <<>>]
                      /\ pc' = [pc EXCEPT ![r] = "verify"]
      /\ recipients' = [recipients EXCEPT ![r] = IF admitted THEN rcpts ELSE <<>>]
      /\ remaining' = [remaining EXCEPT ![r] =
                         IF admitted THEN Remaining(count) ELSE 0]
      /\ verifyCalls' = [verifyCalls EXCEPT ![r] = IF admitted THEN 1 ELSE 0]
      /\ attempts' = [attempts EXCEPT ![r] =
                        IF admitted THEN [m \in 1..Len(rcpts) |-> 0] ELSE <<>>]

\* transporter.verify() rejects: the catch block
VerifyRejects(r) ==
  /\ pc[r] = "verify"
  /\ IF HasRecord(stats, gmail[r])
     THEN Respond(r, [success |-> FALSE, msg |-> "Wrong App Password",
                      count |-> stats[gmail[r]].count])
     ELSE Throw(r)
  /\ UNCHANGED << stats, gmail, recipients, remaining, i, sent, results, hist,
                  resetSeen, resets, epoch, textVars, pageVars >>

\* transporter.verify() fulfils: build mails, enter sendSafely
VerifyFulfils(r) ==
  /\ pc[r] = "verify"
  /\ IF LoopRuns(0, Len(recipients[r]))
     THEN /\ StartBatch(r, 0)
          /\ UNCHANGED sent
     ELSE /\ CommitAndRespond(r, 0)
          /\ UNCHANGED << i, sent, results, attempts, batches >>
  /\ verified' = [verified EXCEPT ![r] = TRUE]
  /\ UNCHANGED << gmail, recipients, remaining, verifyCalls, relayOk, delays,
                  resetSeen, resets, epoch, textVars, pageVars >>

\* await Promise.allSettled(...) resumes: every sendMail promise of the batch
\* has settled, res[j] the status of the j-th; the tally runs and the delay
\* timer starts. No code of the server runs between the settling of one
\* promise of the batch and that of the next.
BatchSettles(r, res) ==
  /\ pc[r] = "sending"
  /\ DOMAIN res = DOMAIN results[r]
  /\ Rejected(r) + (Len(res) - Tally(res)) <= MaxRejects
  /\ results' = [results EXCEPT ![r] = res]
  /\ sent' = [sent EXCEPT ![r] = @ + Tally(res)]
  /\ relayOk' = [relayOk EXCEPT ![r] =
                   @ + Cardinality({j \in 1..Len(res) : res[j] = "fulfilled"})]
  /\ pc' = [pc EXCEPT ![r] = "delay"]
  /\ UNCHANGED << stats, gmail, recipients, remaining, i, responses, verifyCalls,
                  verified, attempts, batches, delays, resetSeen, resets, epoch,
                  textVars, pageVars >>

\* setTimeout(r, DELAY_MS) fires: the loop goes on, or sendSafely returns and
\* the handler commits and responds
DelayElapses(r) ==
  /\ pc[r] = "delay"
  /\ delays' = [delays EXCEPT ![r] = @ + 1]
  /\ IF LoopRuns(Advance(i[r]), Len(recipients[r]))
     THEN StartBatch(r, Advance(i[r]))
     ELSE /\ CommitAndRespond(r, sent[r])
          /\ UNCHANGED << i, results, attempts, batches >>
  /\ UNCHANGED << gmail, recipients, remaining, sent, verifyCalls, verified,
                  relayOk, resetSeen, resets, epoch, textVars, pageVars >>

\* the timer callback without its assignment to stats
HourlyReset_KeepsStats ==
  /\ resets < MaxResets
  /\ resets' = resets + 1
  /\ resetSeen' = [r \in Reqs |-> resetSeen[r] \/ InFlight(r)]
  /\ UNCHANGED << stats, pc, gmail, recipients, remaining, i, sent, results,
                  responses, hist, epoch, textVars, pageVars >>

\* setInterval(() => { stats = {} }, 60 * 60 * 1000)
HourlyReset ==
  /\ resets < MaxResets
  /\ resets' = resets + 1
  /\ stats' = EmptyStats
  /\ resetSeen' = [r \in Reqs |-> resetSeen[r] \/ InFlight(r)]
  /\ UNCHANGED << pc, gmail, recipients, remaining, i, sent, results, responses,
                  hist, epoch, textVars, pageVars >>

Next ==
  \/ \E r \in Reqs, b \in Bodies : Receive(r, b)
  \/ \E r \in Reqs : VerifyRejects(r)
  \/ \E r \in Reqs : VerifyFulfils(r)
  \/ \E r \in Reqs, n \in 1..PARALLEL :
       \E res \in [1..n -> {"fulfilled", "rejected"}] : BatchSettles(r, res)
  \/ \E r \in Reqs : DelayElapses(r)
  \/ HourlyReset

Spec == Init /\ [][Next]_vars

(* ------------------------------------------------------------------ *)
(* Requests handled one at a time: a request arrives, and the timer    *)
(* fires, only when no request is in flight                            *)
(* ------------------------------------------------------------------ *)
NoneInFlight == \A q \in Reqs : ~InFlight(q)

NextSerial ==
  \/ \E r \in Reqs, b \in Bodies : NoneInFlight /\ Receive(r, b)
  \/ \E r \in Reqs : VerifyRejects(r)
  \/ \E r \in Reqs : VerifyFulfils(r)
  \/ \E r \in Reqs, n \in 1..PARALLEL :
       \E res \in [1..n -> {"fulfilled", "rejected"}] : BatchSettles(r, res)
  \/ \E r \in Reqs : DelayElapses(r)
  \/ NoneInFlight /\ HourlyReset

SerialSpec == Init /\ [][NextSerial]_vars

(* ------------------------------------------------------------------ *)
(* The recipient parsing and the mails, applied to every short `to`    *)
(* ------------------------------------------------------------------ *)
\* the longest `to` string tried
MaxToLen == 5

\* the characters of the `to` strings: a letter, '@', the comma, a blank, LF, CR
ToChars == {"u", "@", ",", " ", "\n", "\r"}

\* the non-empty strings over A of at most n characters
Strings(A, n) == UNION {[1..k -> A] : k \in 1..n}

\* recipients.map(r => ({ from, to: r, subject, text, replyTo }))
Mails(rcpts, name, g, subj, text) ==
  [k \in 1..Len(rcpts) |->
     [from |-> << name, g >>, to |-> rcpts[k], subject |-> subj,
      text |-> text, replyTo |-> g]]

ParseInit ==
  /\ ServerInit
  /\ PageLoaded
  /\ arg \in Strings(ToChars, MaxToLen)
  /\ val = <<>>

\* const recipients = to.split(...).map(...).filter(...)
ParseTo ==
  /\ Len(val) = 0
  /\ val' = << ParseRecipients(arg) >>
  /\ UNCHANGED << arg, serverVars, pageVars >>

\* const mails = recipients.map(...)
BuildMails ==
  /\ Len(val) = 1
  /\ val' = Append(val, Mails(val[1], "Me", "a", "Hi", "Hello"))
  /\ UNCHANGED << arg, serverVars, pageVars >>

ParseNext == ParseTo \/ BuildMails

ParseSpec == ParseInit /\ [][ParseNext]_vars


(* ------------------------------------------------------------------ *)
(* safeSubject, applied to every short subject                         *)
(* ------------------------------------------------------------------ *)
UpperCase ==
  << "A", "B", "C", "D", "E", "F", "G", "H", "I", "J", "K", "L", "M",
     "N", "O", "P", "Q", "R", "S", "T", "U", "V", "W", "X", "Y", "Z" >>

LowerCase ==
  << "a", "b", "c", "d", "e", "f", "g", "h", "i", "j", "k", "l", "m",
     "n", "o", "p", "q", "r", "s", "t", "u", "v", "w", "x", "y", "z" >>

IsUpper(c) == \E n \in DOMAIN UpperCase : UpperCase[n] = c

\* String.prototype.toLowerCase, one character
ToLower(c) ==
  IF IsUpper(c) THEN LowerCase[CHOOSE n \in DOMAIN UpperCase : UpperCase[n] = c]
  ELSE c

\* the last position of the run of white space that starts at k
RunEnd(s, k) ==
  CHOOSE e \in k..Len(s) :
    /\ \A j \in k..e : IsSpace(s[j])
    /\ e = Len(s) \/ ~IsSpace(s[e + 1])

\* .replace(/\s{2,}/g, " ") from position k on
RECURSIVE CollapseSpaceFrom(_, _)
CollapseSpaceFrom(s, k) ==
  IF k > Len(s) THEN <<>>
  ELSE IF IsSpace(s[k])
       THEN LET e == RunEnd(s, k)
            IN  (IF e > k THEN << " " >> ELSE << s[k] >>)
                  \o CollapseSpaceFrom(s, e + 1)
       ELSE << s[k] >> \o CollapseSpaceFrom(s, k + 1)

\* .replace(/([!?])\1+/g, "$1"): a run of one repeated mark keeps its first
CollapseMarks(s) ==
  LET kept(k) == ~(k > 1 /\ s[k] \in {"!", "?"} /\ s[k - 1] = s[k])
      pos == {k \in 1..Len(s) : kept(k)}
  IN  [n \in 1..Cardinality(pos) |-> s[Nth(pos, n)]]

\* .replace(/^[A-Z\s]+$/, s => s.toLowerCase())
LowerIfShouting(s) ==
  IF s # <<>> /\ \A k \in 1..Len(s) : IsUpper(s[k]) \/ IsSpace(s[k])
  THEN [k \in 1..Len(s) |-> ToLower(s[k])]
  ELSE s

\* the alternatives of /free|urgent|act now|guarantee/gi, in their order
Denylist ==
  << << "f", "r", "e", "e" >>,
     << "u", "r", "g", "e", "n", "t" >>,
     << "a", "c", "t", " ", "n", "o", "w" >>,
     << "g", "u", "a", "r", "a", "n", "t", "e", "e" >> >>

\* word w matches s at position k, letter case ignored
MatchesAt(s, k, w) ==
  /\ k + Len(w) - 1 <= Len(s)
  /\ \A j \in 1..Len(w) : ToLower(s[k + j - 1]) = w[j]

\* .replace(/free|urgent|act now|guarantee/gi, "") from position k on
RECURSIVE RemoveDenyFrom(_, _)
RemoveDenyFrom(s, k) ==
  IF k > Len(s) THEN <<>>
  ELSE LET hits == {n \in DOMAIN Denylist : MatchesAt(s, k, Denylist[n])}
       IN  IF hits # {}
           THEN LET n == CHOOSE m \in hits : \A h \in hits : m <= h
                IN  RemoveDenyFrom(s, k + Len(Denylist[n]))
           ELSE << s[k] >> \o RemoveDenyFrom(s, k + 1)

safeSubject(subject) ==
  Trim(RemoveDenyFrom(
         LowerIfShouting(CollapseMarks(CollapseSpaceFrom(subject, 1))), 1))

\* the most pieces a subject tried is made of
MaxPieces == 4

\* the pieces: a denylisted word in both cases and in two halves, letters, a
\* blank and a mark
Pieces ==
  { << "f", "r", "e", "e" >>, << "F", "R", "E", "E" >>, << "f", "r" >>,
    << "e", "e" >>, << "x" >>, << "A" >>, << " " >>, << "!" >> }

\* the concatenation of a sequence of pieces
RECURSIVE Concat(_)
Concat(ps) == IF ps = <<>> THEN <<>> ELSE Head(ps) \o Concat(Tail(ps))

Subjects == { Concat(ps) : ps \in Strings(Pieces, MaxPieces) }

SubjectInit ==
  /\ ServerInit
  /\ PageLoaded
  /\ arg \in Subjects
  /\ val = <<>>

\* const finalSubject = safeSubject(subject)
NormalizeSubject ==
  /\ Len(val) = 0
  /\ val' = << safeSubject(arg) >>
  /\ UNCHANGED << arg, serverVars, pageVars >>

\* safeSubject applied to a subject that safeSubject returned
NormalizeAgain ==
  /\ Len(val) = 1
  /\ val' = Append(val, safeSubject(val[1]))
  /\ UNCHANGED << arg, serverVars, pageVars >>

SubjectNext == NormalizeSubject \/ NormalizeAgain

SubjectSpec == SubjectInit /\ [][SubjectNext]_vars


(* ------------------------------------------------------------------ *)
(* safeBody, applied to every short body                               *)
(* ------------------------------------------------------------------ *)
\* .replace(/\r\n/g, "\n")
CrLfToLf(s) ==
  LET kept(k) == ~(s[k] = "\r" /\ k < Len(s) /\ s[k + 1] = "\n")
      pos == {k \in 1..Len(s) : kept(k)}
  IN  [n \in 1..Cardinality(pos) |-> s[Nth(pos, n)]]

\* .replace(/\n{3,}/g, "\n\n"): of a run of three or more "\n" two are kept
CollapseNewlines(s) ==
  LET kept(k) == ~(s[k] = "\n" /\ k > 2 /\ s[k - 1] = "\n" /\ s[k - 2] = "\n")
      pos == {k \in 1..Len(s) : kept(k)}
  IN  [n \in 1..Cardinality(pos) |-> s[Nth(pos, n)]]

\* the soften table: word and line of each row, in the order of the array
SoftenWords ==
  <<
    << "r", "e", "p", "o", "r", "t" >>,
    << "p", "r", "i", "c", "e" >>,
    << "q", "u", "o", "t", "e" >>,
    << "p", "r", "o", "p", "o", "s", "a", "l" >>,
    << "s", "c", "r", "e", "e", "n", "s", "h", "o", "t" >> >>

SoftenLines ==
  <<
    << "t", "h", "e", " ", "r", "e", "p", "o", "r", "t", " ", "d", "e",
       "t", "a", "i", "l", "s", " ", "a", "r", "e", " ", "s", "h", "a",
       "r", "e", "d", " ", "b", "e", "l", "o", "w" >>,
    << "t", "h", "e", " ", "p", "r", "i", "c", "i", "n", "g", " ", "d",
       "e", "t", "a", "i", "l", "s", " ", "a", "r", "e", " ", "i", "n",
       "c", "l", "u", "d", "e", "d", " ", "b", "e", "l", "o", "w" >>,
    << "t", "h", "e", " ", "q", "u", "o", "t", "e", "d", " ", "d", "e",
       "t", "a", "i", "l", "s", " ", "a", "r", "e", " ", "m", "e", "n",
       "t", "i", "o", "n", "e", "d", " ", "b", "e", "l", "o", "w" >>,
    << "t", "h", "e", " ", "p", "r", "o", "p", "o", "s", "a", "l", " ",
       "d", "e", "t", "a", "i", "l", "s", " ", "a", "r", "e", " ", "o",
       "u", "t", "l", "i", "n", "e", "d", " ", "b", "e", "l", "o",
       "w" >>,
    << "a", " ", "s", "c", "r", "e", "e", "n", "s", "h", "o", "t", " ",
       "h", "a", "s", " ", "b", "e", "e", "n", " ", "i", "n", "c", "l",
       "u", "d", "e", "d", " ", "f", "o", "r", " ", "r", "e", "f", "e",
       "r", "e", "n", "c", "e" >> >>

\* the last position of the white space that starts at k, k - 1 if none
SpaceEnd(s, k) ==
  IF k <= Len(s) /\ IsSpace(s[k]) THEN RunEnd(s, k) ELSE k - 1

\* where a match of \s*word\s*(?=\n|$) that starts at position b ends, 0 if
\* there is none: the white space before the word is taken whole; the white
\* space after it is taken up to the end of the string, or else up to its last
\* "\n", which the lookahead leaves in place
MatchEnd(s, b, w) ==
  LET ws == SpaceEnd(s, b) + 1
      te == SpaceEnd(s, ws + Len(w))
      lfs == {k \in (ws + Len(w))..te : s[k] = "\n"}
  IN  IF ~MatchesAt(s, ws, w) THEN 0
      ELSE IF te = Len(s) THEN te
      ELSE IF lfs = {} THEN 0
      ELSE (CHOOSE k \in lfs : \A q \in lfs : k >= q) - 1

\* t.replace(new RegExp("(^|\\n)\\s*word\\s*(?=\\n|$)", "gi"), "$1" + line)
\* from position k on: at each position the alternative ^ is tried before \n
RECURSIVE SoftenFrom(_, _, _, _)
SoftenFrom(s, k, w, line) ==
  IF k > Len(s) + 1 THEN <<>>
  ELSE LET atStart == IF k = 1 THEN MatchEnd(s, 1, w) ELSE 0
           atLf == IF k <= Len(s) /\ s[k] = "\n" THEN MatchEnd(s, k + 1, w) ELSE 0
       IN  IF atStart > 0 THEN line \o SoftenFrom(s, atStart + 1, w, line)
           ELSE IF atLf > 0 THEN << "\n" >> \o line \o SoftenFrom(s, atLf + 1, w, line)
           ELSE IF k > Len(s) THEN <<>>
           ELSE << s[k] >> \o SoftenFrom(s, k + 1, w, line)

\* soften.forEach(...): the rows applied one after the other, from row n on
RECURSIVE SoftenRows(_, _)
SoftenRows(t, n) ==
  IF n > Len(SoftenWords) THEN t
  ELSE SoftenRows(SoftenFrom(t, 1, SoftenWords[n], SoftenLines[n]), n + 1)

\* the first three replacements of safeBody: the text the rows are applied to
Paragraphs(text) == Trim(CollapseNewlines(CrLfToLf(text)))

safeBody(text) == SoftenRows(Paragraphs(text), 1)

\* "\n\nScanned & secured"
Footer ==
  << "\n", "\n", "S", "c", "a", "n", "n", "e", "d", " ", "&", " ", "s",
     "e", "c", "u", "r", "e", "d" >>

\* the pieces of the bodies tried: two trigger words, one in capitals, a
\* letter, a blank, a line end and a paragraph break
BodyPieces ==
  { SoftenWords[2], << "Q", "U", "O", "T", "E" >>, << "x" >>, << " " >>,
    << "\n" >>, << "\n", "\n" >> }

\* the most pieces a body tried is made of
MaxBodyPieces == 5

MessageBodies == { Concat(ps) : ps \in Strings(BodyPieces, MaxBodyPieces) }

BodyInit ==
  /\ ServerInit
  /\ PageLoaded
  /\ arg \in MessageBodies
  /\ val = <<>>

\* safeBody(message)
NormalizeBody ==
  /\ Len(val) = 0
  /\ val' = << safeBody(arg) >>
  /\ UNCHANGED << arg, serverVars, pageVars >>

\* const finalText = safeBody(message) + "\n\nScanned & secured"
AppendFooter ==
  /\ Len(val) = 1
  /\ val' = Append(val, val[1] \o Footer)
  /\ UNCHANGED << arg, serverVars, pageVars >>

BodyNext == NormalizeBody \/ AppendFooter

BodySpec == BodyInit /\ [][BodyNext]_vars


(* ------------------------------------------------------------------ *)
(* The compose page                                                    *)
(* ------------------------------------------------------------------ *)
\* the most clicks on sendBtn followed
MaxClicks == 3

\* JSON bodies that POST /send answers with
Answers ==
  { [success |-> FALSE, msg |-> "Missing Fields", count |-> 0],
    [success |-> FALSE, msg |-> "This Gmail ID hourly limit reached",
     count |-> HOURLY_LIMIT],
    [success |-> TRUE, sent |-> 1, count |-> 1] }

\* sendMail() is between its first statement and its last
InProgress == call \in {"fetching", "parsing"}

\* the click handler of sendBtn: if (!sending) sendMail(), which runs up to
\* its await fetch(...)
Click ==
  /\ location = "/"
  /\ clicks < MaxClicks
  /\ clicks' = clicks + 1
  /\ IF ~sending
     THEN /\ sending' = TRUE
          /\ disabled' = TRUE
          /\ call' = "fetching"
          /\ fetches' = fetches + 1
     ELSE UNCHANGED << sending, disabled, call, fetches >>
  /\ UNCHANGED << limitText, alerts, location, serverVars, textVars >>

\* the dblclick handler of logoutBtn
Logout ==
  /\ location = "/"
  /\ ~sending
  /\ location' = "/login.html"
  /\ UNCHANGED << sending, disabled, call, fetches, clicks, limitText, alerts,
                  serverVars, textVars >>

\* fetch("/send") fulfils with a response: sendMail goes on to await res.json()
FetchFulfils ==
  /\ location = "/"
  /\ call = "fetching"
  /\ call' = "parsing"
  /\ fetches' = fetches - 1
  /\ UNCHANGED << sending, disabled, clicks, limitText, alerts, location,
                  serverVars, textVars >>

\* fetch("/send") rejects (no connection): the exception leaves sendMail
FetchRejects ==
  /\ location = "/"
  /\ call = "fetching"
  /\ call' = "failed"
  /\ fetches' = fetches - 1
  /\ UNCHANGED << sending, disabled, clicks, limitText, alerts, location,
                  serverVars, textVars >>

\* res.json() fulfils with data: the rest of sendMail
JsonFulfils(data) ==
  /\ location = "/"
  /\ call = "parsing"
  /\ sending' = FALSE
  /\ disabled' = FALSE
  /\ limitText' = << data.count >>
  /\ alerts' = Append(alerts, IF ~data.success THEN [msg |-> data.msg]
                              ELSE [sent |-> data.sent])
  /\ call' = "done"
  /\ UNCHANGED << fetches, clicks, location, serverVars, textVars >>

\* res.json() rejects (the body is not JSON): the exception leaves sendMail
JsonRejects ==
  /\ location = "/"
  /\ call = "parsing"
  /\ call' = "failed"
  /\ UNCHANGED << sending, disabled, fetches, clicks, limitText, alerts,
                  location, serverVars, textVars >>

PageNext ==
  \/ Click
  \/ Logout
  \/ FetchFulfils
  \/ FetchRejects
  \/ \E data \in Answers : JsonFulfils(data)
  \/ JsonRejects

PageSpec == Init /\ [][PageNext]_vars


(* ------------------------------------------------------------------ *)
(* Properties                                                          *)
(* ------------------------------------------------------------------ *)
\* the account's stored cumulative send count, 0 when it has no record
Count(st, g) == IF HasRecord(st, g) THEN st[g].count ELSE 0

\* ceil(n / PARALLEL)
Groups(n) == (n + PARALLEL - 1) \div PARALLEL

\* the request got the JSON body of a completed dispatch
Succeeded(r) == pc[r] = "responded" /\ responses[r][1].success

\* the request got a JSON body with success:false and this msg
Failed(r, msg) ==
  /\ pc[r] = "responded"
  /\ ~responses[r][1].success
  /\ responses[r][1].msg = msg

QuotaMsgs == {"This Gmail ID hourly limit reached", "This Gmail ID limit full"}

\* C1: with requests handled one at a time and the timer firing only between
\* requests, every account's count stays within 0..HOURLY_LIMIT, whatever the
\* relay does to the sends.
C1_SerialCountWithinLimit ==
  \A g \in DOMAIN stats : 0 <= stats[g].count /\ stats[g].count <= HOURLY_LIMIT

\* C1 witness: a second request was admitted after the first one had used part
\* of the quota, some of its sends fulfilled, and the account is exactly at the
\* limit.
C1_Witness ==
  /\ Succeeded(1) /\ Succeeded(2)
  /\ gmail[1] = gmail[2]
  /\ sent[1] > 0 /\ sent[2] > 0
  /\ Count(stats, gmail[1]) = HOURLY_LIMIT

\* C2: nothing is reserved between the quota check and the commit. While a
\* request is in flight and no other request of its account has committed, the
\* stored count is still the count its quota check saw; and when two requests
\* of one account that passed the check against the same count have both
\* committed, the count is that count plus both tallies, with no cap.
C2_NoReservation ==
  /\ \A r \in Reqs :
       ( /\ InFlight(r)
         /\ ~resetSeen[r]
         /\ \A q \in Reqs \ {r} : gmail[q] = gmail[r] => ~Succeeded(q) )
       => /\ HasRecord(stats, gmail[r])
          /\ stats[gmail[r]].count = HOURLY_LIMIT - remaining[r]
  /\ \A r, q \in Reqs :
       ( /\ r # q
         /\ resets = 0
         /\ Succeeded(r) /\ Succeeded(q)
         /\ gmail[r] = gmail[q]
         /\ remaining[r] = remaining[q] )
       => stats[gmail[r]].count
            = (HOURLY_LIMIT - remaining[r]) + relayOk[r] + relayOk[q]

\* C2 witness: two requests of one account passed the check against the same
\* count, both committed, and the account's count is above HOURLY_LIMIT.
C2_Witness ==
  /\ Succeeded(1) /\ Succeeded(2)
  /\ gmail[1] = gmail[2]
  /\ remaining[1] = remaining[2]
  /\ resets = 0
  /\ stats[gmail[1]].count > HOURLY_LIMIT

\* C3: a request that was in flight when the timer fired, and whose
\* verification passed, ends with a commit that starts a fresh counter: it
\* responds success, and the count it reports, the account's count, is its own
\* sent count.
C3_CommitAfterResetStartsFresh ==
  \A r \in Reqs :
    (resetSeen[r] /\ verified[r] /\ Ended(r))
    => /\ pc[r] = "responded"
       /\ responses[r] = << [success |-> TRUE, sent |-> sent[r], count |-> sent[r]] >>

\* C4: every request whose handler has run to its end got exactly one JSON
\* response.
C4_ExactlyOneResponse ==
  \A r \in Reqs : Ended(r) => Len(responses[r]) = 1

\* C5: a request with all required fields that arrives when its account's
\* count is at the limit, or with more recipients than the remaining quota, is
\* rejected whole: it is answered success:false with the unchanged count, the
\* count stays as it was, no recipient is admitted and the relay is never
\* contacted for it.
C5_RejectionIsTotal ==
  /\ [][ \A r \in Reqs, b \in Bodies :
           ( /\ Receive(r, b)
             /\ ~MissingFields(b)
             /\ \/ Count(stats, b.gmail) >= HOURLY_LIMIT
                \/ Len(RecipientsOf[b.to]) > HOURLY_LIMIT - Count(stats, b.gmail) )
           => /\ pc'[r] = "responded"
              /\ Len(responses'[r]) = 1
              /\ ~responses'[r][1].success
              /\ responses'[r][1].msg \in QuotaMsgs
              /\ responses'[r][1].count = Count(stats, b.gmail)
              /\ Count(stats', b.gmail) = Count(stats, b.gmail)
              /\ recipients'[r] = <<>> ]_vars
  /\ [](\A r \in Reqs :
          (\E m \in QuotaMsgs : Failed(r, m))
          => /\ verifyCalls[r] = 0
             /\ attempts[r] = <<>>
             /\ batches[r] = <<>>
             /\ relayOk[r] = 0)

\* C5 witness: a request was rejected because its recipients exceed what is
\* left of a partly used quota.
C5_Witness ==
  \E r \in Reqs :
    /\ Failed(r, "This Gmail ID limit full")
    /\ responses[r][1].count > 0
    /\ responses[r][1].count < HOURLY_LIMIT
    /\ stats[gmail[r]].count = responses[r][1].count

\* C6: the credential is verified once per admitted request before any send,
\* and a request whose verification failed ends with success:false and the
\* account's count, without any sendMail call.
C6_VerifyFailureResponds ==
  \A r \in Reqs :
    /\ (attempts[r] # <<>> /\ \E m \in DOMAIN attempts[r] : attempts[r][m] > 0)
       => (verified[r] /\ verifyCalls[r] = 1)
    /\ (Ended(r) /\ verifyCalls[r] = 1 /\ ~verified[r])
       => /\ Failed(r, "Wrong App Password")
          /\ batches[r] = <<>>
          /\ relayOk[r] = 0

\* C7: the count of every response is the account's stored count (0 without a
\* record) at the moment of responding.
C7_ResponseCountIsStoredCount ==
  [][ \A r \in Reqs :
        responses'[r] # responses[r]
        => responses'[r][Len(responses'[r])].count = Count(stats', gmail'[r]) ]_vars

\* C8: the commit adds to the account's count exactly the number of sends of
\* the request that fulfilled, between 0 and the number of admitted recipients.
C8_CommitAddsFulfilled ==
  [][ \A r \in Reqs :
        (InFlight(r) /\ pc'[r] = "responded" /\ responses'[r][1].success)
        => /\ HasRecord(stats, gmail[r])
           /\ stats'[gmail[r]].count = stats[gmail[r]].count + relayOk'[r]
           /\ 0 <= relayOk'[r]
           /\ relayOk'[r] <= Len(recipients[r])
           /\ responses'[r][1].sent = relayOk'[r] ]_vars

\* C8 witness: a request committed after one of its sends failed and others
\* fulfilled; the account's count is the number that fulfilled.
C8_Witness ==
  /\ pc[2] = "idle"
  /\ resets = 0
  /\ Succeeded(1)
  /\ relayOk[1] > 0
  /\ relayOk[1] < Len(recipients[1])
  /\ stats[gmail[1]].count = relayOk[1]

\* C9: the batches sendSafely issues are the consecutive groups of PARALLEL
\* messages, in order, only the last one possibly smaller, and one delay
\* elapses after every batch: when sendSafely has returned, n messages have
\* given ceil(n / PARALLEL) batches and as many delays.
C9_ConsecutiveGroupsAndDelays ==
  \A r \in Reqs :
    LET n == Len(recipients[r])
    IN  /\ \A k \in 1..Len(batches[r]) :
             batches[r][k]
               = [j \in 1..(Min(PARALLEL * k, n) - PARALLEL * (k - 1))
                    |-> PARALLEL * (k - 1) + j]
        /\ Len(batches[r]) <= Groups(n)
        /\ delays[r] = IF pc[r] \in {"sending", "delay"}
                       THEN Len(batches[r]) - 1 ELSE Len(batches[r])
        /\ (verified[r] /\ Ended(r))
           => (Len(batches[r]) = Groups(n) /\ delays[r] = Groups(n))

\* C9 witness: sendSafely has returned for 7 messages: batches of 3, 3 and 1,
\* and 3 delays.
C9_Witness ==
  \E r \in Reqs :
    /\ Ended(r) /\ verified[r]
    /\ Len(recipients[r]) = 7
    /\ batches[r] = << <<1, 2, 3>>, <<4, 5, 6>>, <<7>> >>
    /\ delays[r] = 3

\* C10: sendSafely passes every message to sendMail exactly once whatever the
\* outcomes of the others, and what it returns is the number of sendMail calls
\* that fulfilled.
C10_EveryMessageOnce ==
  \A r \in Reqs :
    /\ \A m \in DOMAIN attempts[r] : attempts[r][m] <= 1
    /\ pc[r] # "sending" => sent[r] = relayOk[r]
    /\ 0 <= sent[r] /\ sent[r] <= Len(recipients[r])
    /\ (verified[r] /\ Ended(r))
       => /\ DOMAIN attempts[r] = 1..Len(recipients[r])
          /\ \A m \in DOMAIN attempts[r] : attempts[r][m] = 1
    /\ Succeeded(r) => responses[r][1].sent = relayOk[r]

\* C10 witness: sendSafely has returned after a send failed: the six other
\* messages of the seven were attempted and fulfilled.
C10_Witness ==
  \E r \in Reqs :
    /\ Succeeded(r)
    /\ Len(recipients[r]) = 7
    /\ \A m \in 1..7 : attempts[r][m] = 1
    /\ sent[r] = 6

\* C11: a request whose credential verification passed is answered
\* success:true, without a msg, whatever the sends did; when every send
\* failed it reports sent 0.
C11_VerifiedRespondsSuccess ==
  \A r \in Reqs :
    (verified[r] /\ Ended(r))
    => /\ pc[r] = "responded"
       /\ responses[r][1].success
       /\ DOMAIN responses[r][1] = {"success", "sent", "count"}
       /\ (relayOk[r] = 0 => responses[r][1].sent = 0)

\* request q left its account at the limit: it committed, with no timer tick
\* while it was in flight, and the count it reported is HOURLY_LIMIT or more
Capped(q) ==
  /\ Succeeded(q)
  /\ ~resetSeen[q]
  /\ responses[q][1].count >= HOURLY_LIMIT

\* request r arrived after the timer had fired on the account that q had left
\* at the limit, q having ended before the tick
Reopened(r) ==
  \E q \in Reqs \ {r} :
    /\ gmail[q] = gmail[r]
    /\ Capped(q)
    /\ pc[r] # "idle"
    /\ epoch[r] > epoch[q]

\* C12: once the timer has fired with no request in flight, the next request
\* of an account that had reached the limit, with all fields and at most
\* HOURLY_LIMIT recipients, passes the quota check against a count of 0; and
\* when all its sends fulfil (no tick while it is in flight), the count it
\* reports and stores is its number of recipients.
C12_CappedAccountSendsAgain ==
  /\ [][ \A r \in Reqs, b \in Bodies :
           ( /\ Receive(r, b)
             /\ ~MissingFields(b)
             /\ Len(RecipientsOf[b.to]) <= HOURLY_LIMIT
             /\ \E q \in Reqs \ {r} :
                  gmail[q] = b.gmail /\ Capped(q) /\ resets > epoch[q] )
           => /\ pc'[r] = "verify"
              /\ remaining'[r] = HOURLY_LIMIT
              /\ stats'[b.gmail].count = 0 ]_vars
  /\ [](\A r \in Reqs :
          ( /\ Reopened(r)
            /\ Succeeded(r)
            /\ ~resetSeen[r]
            /\ relayOk[r] = Len(recipients[r]) )
          => /\ responses[r][1].count = Len(recipients[r])
             /\ responses[r][1].sent = Len(recipients[r])
             /\ (resets = epoch[r] => stats[gmail[r]].count = Len(recipients[r])))

\* C12 witness: the first request filled its account's quota, the timer fired,
\* and the second request of that account sent to all its 7 recipients: the
\* count is 7.
C12_Witness ==
  /\ Capped(1)
  /\ Reopened(2)
  /\ Succeeded(2)
  /\ ~resetSeen[2]
  /\ resets = epoch[2]
  /\ Len(recipients[2]) = 7
  /\ relayOk[2] = 7
  /\ stats[gmail[2]].count = 7

\* the fields whose absence the validation rejects
Required == {"gmail", "apppass", "to", "subject", "message"}

\* field f of body b is absent or empty
Empty(b, f) == b[f] = IF f = "to" THEN <<>> ELSE ""

\* C13: a request with any of gmail, apppass, to, subject, message absent or
\* empty is answered success:false "Missing Fields" in its first step, with the
\* quota table untouched and no call of the relay, then or later; a request
\* that lacks only senderName is not rejected for that.
C13_MissingFieldsRejectedFirst ==
  /\ [][ \A r \in Reqs, b \in Bodies :
           Receive(r, b) =>
             IF \E f \in Required : Empty(b, f)
             THEN /\ pc'[r] = "responded"
                  /\ ~responses'[r][1].success
                  /\ responses'[r][1].msg = "Missing Fields"
                  /\ stats' = stats
                  /\ verifyCalls'[r] = 0
                  /\ attempts'[r] = <<>>
             ELSE /\ pc'[r] = "responded" => responses'[r][1].msg \in QuotaMsgs
                  /\ ( /\ Count(stats, b.gmail) < HOURLY_LIMIT
                       /\ Count(stats, b.gmail) + Len(RecipientsOf[b.to]) <= HOURLY_LIMIT )
                     => pc'[r] = "verify" /\ verifyCalls'[r] = 1 ]_vars
  /\ [](\A r \in Reqs :
          Failed(r, "Missing Fields")
            => verifyCalls[r] = 0 /\ attempts[r] = <<>> /\ relayOk[r] = 0)

\* C13 witness: the second request lacked a field and was rejected while the
\* first one's committed count stands and the second never reached the relay.
C13_Witness ==
  /\ Succeeded(1)
  /\ Failed(2, "Missing Fields")
  /\ verifyCalls[2] = 0
  /\ \E g \in Accounts : Count(stats, g) > 0

\* the sendMail promises of request r that have not settled
Pending(r) ==
  IF pc[r] = "sending"
  THEN {j \in 1..Len(results[r]) : results[r][j] = "pending"}
  ELSE {}

\* C17: a request has at most PARALLEL sends in flight; a group is issued only
\* from a state where no send of the request is pending and, after the first
\* group, only by the step in which the delay after the previous group
\* elapses; messages of later groups are untouched while a group is in flight
\* or its delay runs.
C17_GroupsDoNotOverlap ==
  /\ [](\A r \in Reqs :
          /\ Cardinality(Pending(r)) <= PARALLEL
          /\ pc[r] \in {"sending", "delay"}
             => \A m \in DOMAIN attempts[r] :
                  m > Min(Advance(i[r]), Len(recipients[r])) => attempts[r][m] = 0)
  /\ [][ \A r \in Reqs :
           batches'[r] # batches[r]
             => /\ Pending(r) = {}
                /\ pc[r] = IF Len(batches[r]) = 0 THEN "verify" ELSE "delay"
                /\ \A j \in 1..Len(results[r]) :
                     results[r][j] \in {"fulfilled", "rejected"}
                /\ delays'[r] = Len(batches[r])
                /\ Len(batches'[r]) = Len(batches[r]) + 1 ]_vars

\* C17 witness: the second group of a request of 7 is in flight: 3 pending
\* sends, one delay elapsed, the seventh message not yet passed to sendMail.
C17_Witness ==
  \E r \in Reqs :
    /\ pc[r] = "sending"
    /\ Len(recipients[r]) = 7
    /\ Len(batches[r]) = 2
    /\ Cardinality(Pending(r)) = PARALLEL
    /\ delays[r] = 1
    /\ attempts[r][7] = 0

\* C18: a success response is emitted by the step that follows the last
\* delay, when every message has been passed to sendMail and has settled, and
\* it carries the count after the addition of the request's own sent, so
\* count >= sent; no response of any kind is emitted from a state where a send
\* of the request is pending.
C18_SuccessAfterCommit ==
  /\ [](\A r \in Reqs :
          Succeeded(r)
            => LET n == Len(recipients[r])
               IN  /\ responses[r][1].count >= responses[r][1].sent
                   /\ responses[r][1].sent = sent[r]
                   /\ \A m \in 1..n : attempts[r][m] = 1
                   /\ \A j \in 1..Len(results[r]) : results[r][j] # "pending"
                   /\ Len(batches[r]) = Groups(n)
                   /\ delays[r] = Groups(n))
  /\ [][ \A r \in Reqs :
           responses'[r] # responses[r]
             => /\ Pending(r) = {}
                /\ pc[r] # "sending"
                /\ responses'[r][1].success
                   => /\ pc[r] = IF Len(recipients[r]) = 0 THEN "verify" ELSE "delay"
                      /\ HasRecord(stats, gmail[r])
                      /\ stats'[gmail[r]].count
                           = stats[gmail[r]].count + responses'[r][1].sent
                      /\ responses'[r][1].count = stats'[gmail[r]].count ]_vars

\* C18 witness: the second request of an account succeeded after the first had
\* committed: it reports its own 7 sent and a count that includes them and the
\* first request's.
C18_Witness ==
  /\ Succeeded(1) /\ Succeeded(2)
  /\ gmail[1] = gmail[2]
  /\ responses[1][1].sent > 0
  /\ responses[2][1].sent = 7
  /\ delays[2] = 3
  /\ responses[2][1].count = responses[1][1].sent + 7

\* request r runs in this step
Acts(r) == pc'[r] # pc[r]

\* C19: outside the timer's tick, the record of an account is created or
\* changed only by a step of a request whose gmail is that account, and the
\* count a quota, verify or success response carries is the count of the
\* request's own account after the step.
C19_QuotaPerAccount ==
  [][ /\ resets' = resets
        => \A g \in DOMAIN stats \cup DOMAIN stats' \cup Accounts :
             ( \/ HasRecord(stats', g) # HasRecord(stats, g)
               \/ Count(stats', g) # Count(stats, g) )
             => \E r \in Reqs : Acts(r) /\ gmail'[r] = g
      /\ \A r \in Reqs :
           ( /\ responses'[r] # responses[r]
             /\ ~Failed(r, "Missing Fields")' )
           => responses'[r][1].count = Count(stats', gmail'[r]) ]_vars

\* C19 witness: requests of two accounts both committed with no tick:
\* each account's count is its own request's sent, 7 and 1.
C19_Witness ==
  /\ Succeeded(1) /\ Succeeded(2)
  /\ gmail[1] # gmail[2]
  /\ resets = 0
  /\ batches[1] # <<>> /\ epoch[2] = 0
  /\ responses[1][1].sent = 7 /\ stats[gmail[1]].count = 7
  /\ responses[2][1].sent = 1 /\ stats[gmail[2]].count = 1


\* the entries of s cut at every comma and line feed, cur the entry being read
RECURSIVE Entries(_, _)
Entries(s, cur) ==
  IF s = <<>> THEN << cur >>
  ELSE IF Head(s) \in {",", "\n"} THEN << cur >> \o Entries(Tail(s), <<>>)
  ELSE Entries(Tail(s), Append(cur, Head(s)))

\* s without its leading white space
RECURSIVE StripLeft(_)
StripLeft(s) ==
  IF s # <<>> /\ IsSpace(Head(s)) THEN StripLeft(Tail(s)) ELSE s

\* s without its trailing white space
RECURSIVE StripRight(_)
StripRight(s) ==
  IF s # <<>> /\ IsSpace(s[Len(s)]) THEN StripRight(SubSeq(s, 1, Len(s) - 1)) ELSE s

\* the stripped entries that contain '@', in order, duplicates kept
RECURSIVE Kept(_)
Kept(es) ==
  IF es = <<>> THEN <<>>
  ELSE LET e == StripRight(StripLeft(Head(es)))
       IN  (IF \E k \in 1..Len(e) : e[k] = "@" THEN << e >> ELSE <<>>)
             \o Kept(Tail(es))

\* C14: the recipient list is the `to` string cut at commas and newlines, each
\* entry trimmed, the entries with '@' kept in order and with their
\* duplicates; there is one mail per kept entry, addressed to it, in the same
\* order.
C14_RecipientsAsSplitTrimFilter ==
  /\ Len(val) >= 1
     => /\ val[1] = Kept(Entries(arg, <<>>))
        /\ \A k \in 1..Len(val[1]) :
             /\ IncludesAt(val[1][k])
             /\ ~IsSpace(val[1][k][1])
             /\ ~IsSpace(val[1][k][Len(val[1][k])])
             /\ \A j \in 1..Len(val[1][k]) : val[1][k][j] \notin {",", "\n"}
  /\ Len(val) = 2
     => /\ Len(val[2]) = Len(val[1])
        /\ \A k \in 1..Len(val[2]) : val[2][k].to = val[1][k]

\* C14 witness: "@,u\n@" gives the recipients "@" and "@": the entry without
\* '@' is dropped, the duplicate is kept, and two mails are built.
C14_Witness ==
  /\ arg = << "@", ",", "u", "\n", "@" >>
  /\ Len(val) = 2
  /\ val[1] = << << "@" >>, << "@" >> >>
  /\ Len(val[2]) = 2


\* C15: safeSubject is idempotent: applied to its own result it returns that
\* result.
C15_SafeSubjectIdempotent ==
  Len(val) = 2 => val[2] = val[1]


\* the lines of s: the text between its "\n"
RECURSIVE Lines(_, _)
Lines(s, cur) ==
  IF s = <<>> THEN << cur >>
  ELSE IF Head(s) = "\n" THEN << cur >> \o Lines(Tail(s), <<>>)
  ELSE Lines(Tail(s), Append(cur, Head(s)))

\* the rows whose word is the whole of the line, white space and case aside
RowsOf(line) ==
  LET core == StripRight(StripLeft(line))
  IN  {n \in DOMAIN SoftenWords :
         /\ Len(core) = Len(SoftenWords[n])
         /\ MatchesAt(core, 1, SoftenWords[n])}

\* a line that is a trigger word becomes its sentence, any other line stays
LineSoftened(line) ==
  IF RowsOf(line) = {} THEN line
  ELSE SoftenLines[CHOOSE n \in RowsOf(line) : TRUE]

\* the lines ls joined by "\n"
RECURSIVE Joined(_)
Joined(ls) ==
  IF Len(ls) = 1 THEN ls[1]
  ELSE ls[1] \o << "\n" >> \o Joined(Tail(ls))

\* C16: the substitution is line by line: safeBody returns the lines of the
\* text after the line-end and paragraph normalisation, each line that is only
\* a trigger word replaced by its sentence, every other line, the blank ones
\* too, as it was.
C16_SubstitutionIsLineScoped ==
  Len(val) >= 1
    => LET ls == Lines(Paragraphs(arg), <<>>)
       IN  val[1] = Joined([n \in 1..Len(ls) |-> LineSoftened(ls[n])])


\* C20: sending is true exactly while a sendMail() invocation is in progress;
\* at most one /send request of the page is outstanding; and once an
\* invocation has ended, by its return or by an exception of fetch or of
\* res.json(), sending is false and the button is enabled.
C20_SendingWhileInProgress ==
  /\ sending <=> InProgress
  /\ fetches <= 1
  /\ call \in {"done", "failed"} => ~sending /\ ~disabled

====
